---- MODULE Spec2Model ----
(***************************************************************************)
(* A model of the maelstrom node runtime (maelstrom/src/lib.rs): the       *)
(* NodeImpl state, handler registration, the dispatch loop `run`, the init *)
(* handler and `reply` with its message-id generator.                      *)
(*                                                                         *)
(* Writes to stdout are taken to succeed (the io::Error path of            *)
(* `write_all` is not modelled).                                           *)
(***************************************************************************)
EXTENDS Integers, Sequences, FiniteSets, TLC

VARIABLES
    id,                \* NodeImpl.id: Option<String>
    next_msg_id,       \* NodeImpl.next_msg_id: u64
    handlers,          \* NodeImpl.handlers: HashMap<String, Box<Handler>>
    stateful_handlers, \* NodeImpl.stateful_handlers
    stdout,            \* the lines written to stdout, as messages, in order
    pc,                \* "setup", "read", "handler", "eof", "panicked"
    msg,               \* the line read last (the message being dispatched)
    taken,             \* the entry `remove_entry` took out of `handlers`
    nread,             \* number of lines read from stdin
    invoked,           \* handler invocations started, in order
    completed,         \* number of handler invocations that returned Ok
    callbacks,         \* Framework: Callback Registry, msg_id -> continuation
    inbox,             \* Framework: parsed messages waiting for dispatch
    outbox,            \* Framework: messages waiting for the writer
    fired,             \* Framework: continuation invocations, in order
    ndispatched,       \* Framework: number of messages dispatched
    app,               \* the application run on the Framework
    seen,              \* BroadcastNode.seen: HashSet<u64>
    neighbors,         \* BroadcastNode.neighbors: Vec<String>
    acked,             \* send_with_retries: the shared acknowledged flag
    attempts,          \* send_with_retries: msg_ids of the attempts issued
    retry_pc,          \* send_with_retries: "idle", "attempt", "wait", "done"
    ack_on             \* the attempt the responder acknowledges

vars == <<id, next_msg_id, handlers, stateful_handlers, stdout, pc, msg,
          taken, nread, invoked, completed, callbacks, inbox, outbox, fired,
          ndispatched, app, seen, neighbors, acked, attempts, retry_pc,
          ack_on>>

\* The state of the application run on the Framework.
avars == <<app, seen, neighbors>>

\* The state of a reliable send and of its responder.
rvars == <<acked, attempts, retry_pc, ack_on>>

\* The state of the Framework's queues and Callback Registry, and of what
\* runs on it.
fvars == <<callbacks, inbox, outbox, fired, ndispatched, avars, rvars>>

----------------------------------------------------------------------------
\* Bounds of the model.

\* Number of lines the node reads from stdin in one run.
MaxInbound == 4

\* u64::MAX, scaled down so that identifier exhaustion is reachable.
U64_MAX == 5

----------------------------------------------------------------------------
\* Values.

None == "None"               \* Option::None
Garbage == [line |-> "garbage"]   \* an input line that is not a Message
NoLine == [line |-> "none"]       \* no line has been read yet
NoEntry == <<>>              \* nothing taken out of `handlers`
NoApp == "none"              \* no application on the Framework

NodeIds == {"n1", "n2"}
Clients == {"c1"}
Dests == {"n1"}

\* Message types seen on input; "read" is never registered with `handle`.
Types == {"init", "echo", "read"}

\* The handler `add_init_handler` registers.
InitHandler == "init_handler"
\* Application handlers: one that returns Ok(()) at once, one that replies
\* with a body {"type": "<type>_ok"}.
AppHandlers == {"noop", "replier"}

\* Choices for an optional integer field of an inbound body.
AbsentInt == -2              \* the key is not in the body
NotU64 == -1                 \* a JSON number for which as_u64() is None
InboundMsgIds == {AbsentInt, NotU64, 1, 2}
AbsentStr == "absent"        \* the key is not in the body

----------------------------------------------------------------------------
\* serde_json::Map<String, Value> as a function from its keys.

EmptyMap == [k \in {} |-> 0]

Insert(body, key, value) ==
    [k \in (DOMAIN body) \cup {key} |-> IF k = key THEN value ELSE body[k]]

HasKey(body, key) == key \in DOMAIN body

\* An inbound body with the given optional fields.
MkBody(type, msg_id, node_id) ==
    LET keys == (IF type = AbsentStr THEN {} ELSE {"type"})
                \cup (IF msg_id = AbsentInt THEN {} ELSE {"msg_id"})
                \cup (IF node_id = AbsentStr THEN {} ELSE {"node_id"})
    IN  [k \in keys |-> CASE k = "type" -> type
                          [] k = "msg_id" -> msg_id
                          [] k = "node_id" -> node_id]

\* struct Message
Message(src, dest, body) == [src |-> src, dest |-> dest, body |-> body]

InboundBodies ==
    {MkBody("init", m, n) : m \in {AbsentInt, 1, 2}, n \in NodeIds \cup {AbsentStr}}
    \cup {MkBody("echo", m, AbsentStr) : m \in InboundMsgIds}
    \cup {MkBody("read", m, AbsentStr) : m \in {AbsentInt, 1}}
    \cup {MkBody(AbsentStr, 1, AbsentStr)}

InboundMessages ==
    {Message(s, d, b) : s \in Clients, d \in Dests, b \in InboundBodies}

\* What one line of stdin can hold.
Lines == InboundMessages \cup {Garbage}

\* The line parses as a Message.
IsMessage(line) == "body" \in DOMAIN line

----------------------------------------------------------------------------
\* impl Message

\* Message::type panics unless the body has a string `type`.
TypePanics(m) == ~HasKey(m.body, "type")
Type(m) == m.body["type"]

\* Message::msg_id panics unless the body has a u64 `msg_id`.
MsgIdPanics(m) ==
    \/ ~HasKey(m.body, "msg_id")
    \/ m.body["msg_id"] < 0
MsgId(m) == m.body["msg_id"]

----------------------------------------------------------------------------
\* NodeImpl::produce_msg_id

\* Faulty variant: the counter is not checked against the maximum.
ProduceMsgIdPanics_Never(next) == FALSE

\* if self.next_msg_id == u64::MAX { panic!(...) }
ProduceMsgIdPanics(next) == next = U64_MAX
\* Faulty variant: the counter is not incremented.
ProduceMsgId_NoIncrement(next) == [id |-> next, next_msg_id |-> next]
ProduceMsgId(next) == [id |-> next, next_msg_id |-> next + 1]

\* NodePrivate::set_id
SetId(new_id) == new_id

\* The argument the init handler gives set_id:
\* body.get("node_id").and_then(as_str).map(to_owned)
InitNodeId(m) ==
    IF HasKey(m.body, "node_id") THEN m.body["node_id"] ELSE None

\* The body `reply` sends: in_reply_to, then msg_id, inserted into `body`.
ReplyBody(m, body, fresh) ==
    Insert(Insert(body, "in_reply_to", MsgId(m)), "msg_id", fresh)

\* Faulty variant: src and dest are not swapped.
ReplyMessage_NotSwapped(m, body, fresh) ==
    Message(m.src, m.dest,
            Insert(Insert(body, "in_reply_to", m.body["msg_id"]), "msg_id", fresh))

\* The message `reply` writes.
ReplyMessage(m, body, fresh) ==
    Message(m.dest, m.src, ReplyBody(m, body, fresh))

\* Faulty variant: a message without msg_id is answered, without in_reply_to.
Reply_OptionalMsgId(m, body, next, out) ==
    IF ProduceMsgIdPanics(next)
    THEN [panicked |-> TRUE, next_msg_id |-> next, stdout |-> out]
    ELSE [panicked |-> FALSE,
          next_msg_id |-> next + 1,
          stdout |-> Append(out, Message(m.dest, m.src,
                        Insert(IF HasKey(m.body, "msg_id")
                               THEN Insert(body, "in_reply_to", m.body["msg_id"])
                               ELSE body,
                               "msg_id", next)))]

\* <NodeImpl<S> as Node<()>>::reply, as the node's next state:
\* msg.msg_id() is evaluated first, then produce_msg_id(), then the write.
Reply(m, body, next, out) ==
    IF MsgIdPanics(m) \/ ProduceMsgIdPanics(next)
    THEN [panicked |-> TRUE, next_msg_id |-> next, stdout |-> out]
    ELSE [panicked |-> FALSE,
          next_msg_id |-> ProduceMsgId(next).next_msg_id,
          stdout |-> Append(out, ReplyMessage(m, body, ProduceMsgId(next).id))]

\* The body a handler replies with.
OkBody(type) == Insert(EmptyMap, "type", type)
OkType(type) ==
    CASE type = "init" -> "init_ok"
      [] type = "echo" -> "echo_ok"
      [] type = "read" -> "read_ok"

----------------------------------------------------------------------------
\* NodeImpl::new (and with_state, which takes over what new built).

Init ==
    /\ id = None
    /\ next_msg_id = 1
    /\ handlers = [t \in {"init"} |-> InitHandler]
    /\ stateful_handlers = EmptyMap
    /\ stdout = <<>>
    /\ pc = "setup"
    /\ msg = NoLine
    /\ taken = NoEntry
    /\ nread = 0
    /\ invoked = <<>>
    /\ completed = 0
    /\ callbacks = EmptyMap
    /\ inbox = <<>>
    /\ outbox = <<>>
    /\ fired = <<>>
    /\ ndispatched = 0
    /\ app = NoApp
    /\ seen = {}
    /\ neighbors = <<>>
    /\ acked = FALSE
    /\ attempts = <<>>
    /\ retry_pc = "idle"
    /\ ack_on = 0

\* NodeImpl::handle
Handle(message_name, handler) ==
    /\ pc = "setup"
    /\ handlers' = Insert(handlers, message_name, handler)
    /\ UNCHANGED <<id, next_msg_id, stateful_handlers, stdout, pc, msg, taken,
                   nread, invoked, completed, fvars>>

\* NodeImpl::handle_with_state
HandleWithState(message_name, handler) ==
    /\ pc = "setup"
    /\ stateful_handlers' = Insert(stateful_handlers, message_name, handler)
    /\ UNCHANGED <<id, next_msg_id, handlers, stdout, pc, msg, taken,
                   nread, invoked, completed, fvars>>

\* The call of NodeImpl::run: the node starts to read stdin.
Run ==
    /\ pc = "setup"
    /\ pc' = "read"
    /\ UNCHANGED <<id, next_msg_id, handlers, stateful_handlers, stdout, msg,
                   taken, nread, invoked, completed, fvars>>

\* Faulty variant: the handler is started and the loop reads on without waiting.
PcAfterRemove_NoWait == "read"

\* Where control is after `remove_entry` found a handler: inside its call.
PcAfterRemove == "handler"

\* Faulty variant: the type is looked up among the stateful handlers.
Registry_Stateful == stateful_handlers

\* The registry `run` looks the type up in.
Registry == handlers

\* Faulty variant: a line that cannot be dispatched is skipped.
AfterBadLine_Skip == "read"

\* Where control is after a line failed to parse or has no `type`: the
\* `expect` panicked.
AfterBadLine == "panicked"

\* One turn of the loop of `run` up to the call of the handler: read a
\* line, parse it, take the handler of its type out of `handlers`.
ReadLine(line) ==
    /\ pc = "read"
    /\ nread < MaxInbound
    /\ nread' = nread + 1
    /\ msg' = line
    /\ IF ~IsMessage(line) \/ TypePanics(line)
       THEN /\ pc' = AfterBadLine
            /\ UNCHANGED <<handlers, taken, invoked>>
       ELSE IF HasKey(Registry, Type(line))
       THEN /\ taken' = <<Type(line), Registry[Type(line)]>>
            /\ handlers' = [t \in (DOMAIN handlers) \ {Type(line)} |-> handlers[t]]
            /\ invoked' = Append(invoked, [n |-> nread + 1, type |-> Type(line),
                                           registry |-> "handlers",
                                           handler |-> Registry[Type(line)]])
            /\ pc' = PcAfterRemove
       ELSE /\ pc' = "read"
            /\ UNCHANGED <<handlers, taken, invoked>>
    /\ UNCHANGED <<id, next_msg_id, stateful_handlers, stdout, completed, fvars>>

\* The node after the handler `h` ran on message `m`.
HandlerResult(h, m) ==
    CASE h = InitHandler ->
           [id |-> SetId(InitNodeId(m)),
            reply |-> Reply(m, OkBody("init_ok"), next_msg_id, stdout)]
      [] h = "replier" ->
           [id |-> id,
            reply |-> Reply(m, OkBody(OkType(Type(m))), next_msg_id, stdout)]
      [] h = "noop" ->
           [id |-> id,
            reply |-> [panicked |-> FALSE, next_msg_id |-> next_msg_id,
                       stdout |-> stdout]]

\* Faulty variant: the handler taken out is not put back.
PutBack_Forget(registry, entry) == registry

\* self.handlers.insert(r#type, handler) after the handler returned Ok.
PutBack(registry, entry) == Insert(registry, entry[1], entry[2])

\* The rest of the turn: the handler runs and is put back into `handlers`.
HandlerCall ==
    /\ pc = "handler"
    /\ LET r == HandlerResult(taken[2], msg) IN
         /\ id' = r.id
         /\ next_msg_id' = r.reply.next_msg_id
         /\ stdout' = r.reply.stdout
         /\ IF r.reply.panicked
            THEN /\ pc' = "panicked"
                 /\ UNCHANGED <<handlers, taken, completed>>
            ELSE /\ pc' = "read"
                 /\ handlers' = PutBack(handlers, taken)
                 /\ taken' = NoEntry
                 /\ completed' = completed + 1
    /\ UNCHANGED <<stateful_handlers, msg, nread, invoked, fvars>>

\* stdin is at its end: `run` returns Ok(()).
Eof ==
    /\ pc = "read"
    /\ pc' = "eof"
    /\ UNCHANGED <<id, next_msg_id, handlers, stateful_handlers, stdout, msg,
                   taken, nread, invoked, completed, fvars>>

Next ==
    \/ \E t \in {"init", "echo"}, h \in AppHandlers : Handle(t, h)
    \/ \E t \in {"echo", "read"}, h \in AppHandlers : HandleWithState(t, h)
    \/ Run
    \/ \E line \in Lines : ReadLine(line)
    \/ HandlerCall
    \/ Eof

Spec == Init /\ [][Next]_vars

----------------------------------------------------------------------------
(***************************************************************************)
(* The Framework: the runtime the applications under src/ call             *)
(* (Framework::run, reply, send).  Its source is not among the files of    *)
(* the repository at hand; its queues, Callback Registry, dispatch loop    *)
(* and rpc are modelled from spec.md 4.3 and 4.4.  The handshake and reply *)
(* are those of lib.rs above.                                              *)
(***************************************************************************)

\* Length the inbound queue is let grow to.
MaxQueue == 2

\* The peer an rpc goes to.
Peer == "n2"

\* The type the application's `handle` answers with an rpc to Peer.
RpcType == "gossip"

\* The continuation the application passes to rpc.
Continuation == "ack"

\* An inbound reply to the request with msg_id k.
ReplyLine(k) ==
    Message(Peer, "n1", Insert(MkBody("gossip_ok", 1, AbsentStr), "in_reply_to", k))

\* What one line of the Framework's stdin can hold.
FLines ==
    {Message("c1", "n1", MkBody("init", 1, "n1")),
     Message("c1", "n1", MkBody(RpcType, 1, AbsentStr)),
     Message("c1", "n1", MkBody("read", 2, AbsentStr))}
    \cup {ReplyLine(k) : k \in 1..(U64_MAX - 1)}

FInit ==
    /\ id = None
    /\ next_msg_id = 1
    /\ handlers = EmptyMap
    /\ stateful_handlers = EmptyMap
    /\ stdout = <<>>
    /\ pc = "framework"
    /\ msg = NoLine
    /\ taken = NoEntry
    /\ nread = 0
    /\ invoked = <<>>
    /\ completed = 0
    /\ callbacks = EmptyMap
    /\ inbox = <<>>
    /\ outbox = <<>>
    /\ fired = <<>>
    /\ ndispatched = 0
    /\ app = NoApp
    /\ seen = {}
    /\ neighbors = <<>>
    /\ acked = FALSE
    /\ attempts = <<>>
    /\ retry_pc = "idle"
    /\ ack_on = 0

\* The reader flow: parse a line and queue it for dispatch.
FRead(line) ==
    /\ pc = "framework"
    /\ nread < MaxInbound
    /\ Len(inbox) < MaxQueue
    /\ nread' = nread + 1
    /\ inbox' = Append(inbox, line)
    /\ UNCHANGED <<id, next_msg_id, handlers, stateful_handlers, stdout, pc,
                   msg, taken, invoked, completed, callbacks, outbox, fired,
                   ndispatched, avars, rvars>>

\* The writer flow: write the next queued message to stdout.
FWrite ==
    /\ pc = "framework"
    /\ outbox # <<>>
    /\ stdout' = Append(stdout, Head(outbox))
    /\ outbox' = Tail(outbox)
    /\ UNCHANGED <<id, next_msg_id, handlers, stateful_handlers, pc, msg,
                   taken, nread, invoked, completed, callbacks, inbox, fired,
                   ndispatched, avars, rvars>>

\* Faulty variant: the continuation is not registered.
RegisterCallback_Skip(cbs, k, cont) == cbs

\* The Callback Registry with a continuation registered under k.
RegisterCallback(cbs, k, cont) == Insert(cbs, k, cont)

\* Faulty variant: the entry stays in the registry.
RemoveCallback_Keep(cbs, k) == cbs

\* The Callback Registry with the entry of k removed.
RemoveCallback(cbs, k) == [j \in (DOMAIN cbs) \ {k} |-> cbs[j]]

\* rpc(to, body, continuation): allocate a fresh msg_id, stamp it into the
\* body, register the continuation under it, then queue the request.  The
\* source is stamped from the Identity, which fails before the handshake.
Rpc(to, body, cont, next, cbs, out) ==
    IF id = None \/ ProduceMsgIdPanics(next)
    THEN [panicked |-> TRUE, next_msg_id |-> next, callbacks |-> cbs,
          outbox |-> out]
    ELSE [panicked |-> FALSE,
          next_msg_id |-> ProduceMsgId(next).next_msg_id,
          callbacks |-> RegisterCallback(cbs, ProduceMsgId(next).id, cont),
          outbox |-> Append(out, Message(id, to,
                        Insert(body, "msg_id", ProduceMsgId(next).id)))]

\* Step 1 of the dispatch loop: the init handshake.
FDispatchInit(m) ==
    LET r == Reply(m, OkBody("init_ok"), next_msg_id, outbox) IN
    /\ Type(m) = "init"
    /\ id' = SetId(InitNodeId(m))
    /\ next_msg_id' = r.next_msg_id
    /\ outbox' = r.stdout
    /\ pc' = IF r.panicked THEN "panicked" ELSE "framework"
    /\ UNCHANGED <<callbacks, fired, invoked>>

\* Step 2: a message that carries in_reply_to goes to the continuation
\* registered under that id, which is removed and invoked; without one the
\* message is dropped.
FDispatchReply(m) ==
    /\ Type(m) # "init"
    /\ HasKey(m.body, "in_reply_to")
    /\ IF HasKey(callbacks, m.body["in_reply_to"])
       THEN /\ callbacks' = RemoveCallback(callbacks, m.body["in_reply_to"])
            /\ fired' = Append(fired, [k |-> m.body["in_reply_to"],
                                       n |-> ndispatched + 1,
                                       cont |-> callbacks[m.body["in_reply_to"]]])
       ELSE UNCHANGED <<callbacks, fired>>
    /\ UNCHANGED <<id, next_msg_id, outbox, pc, invoked>>

\* Step 3: any other message goes to the application's `handle`, which
\* answers RpcType with an rpc to Peer and ignores every other type.
FDispatchHandler(m) ==
    LET r == Rpc(Peer, OkBody(RpcType), Continuation, next_msg_id, callbacks,
                 outbox) IN
    /\ Type(m) # "init"
    /\ ~HasKey(m.body, "in_reply_to")
    /\ IF Type(m) = RpcType
       THEN /\ invoked' = Append(invoked, [n |-> ndispatched + 1,
                                           type |-> Type(m),
                                           registry |-> "handle",
                                           handler |-> "rpc"])
            /\ next_msg_id' = r.next_msg_id
            /\ callbacks' = r.callbacks
            /\ outbox' = r.outbox
            /\ pc' = IF r.panicked THEN "panicked" ELSE "framework"
       ELSE UNCHANGED <<invoked, next_msg_id, callbacks, outbox, pc>>
    /\ UNCHANGED <<id, fired>>

\* The dispatch loop: take the next message off the inbound queue and route
\* it.  A continuation that fires flips the acknowledged flag it shares
\* with the reliable send that passed it to rpc.
FDispatch ==
    /\ pc = "framework"
    /\ inbox # <<>>
    /\ inbox' = Tail(inbox)
    /\ msg' = Head(inbox)
    /\ ndispatched' = ndispatched + 1
    /\ \/ FDispatchInit(Head(inbox))
       \/ FDispatchReply(Head(inbox))
       \/ FDispatchHandler(Head(inbox))
    /\ acked' = (acked \/ Len(fired') > Len(fired))
    /\ UNCHANGED <<handlers, stateful_handlers, stdout, taken, nread,
                   completed, avars, attempts, retry_pc, ack_on>>

FNext ==
    \/ \E line \in FLines : FRead(line)
    \/ FDispatch
    \/ FWrite

FrameworkSpec == FInit /\ [][FNext]_vars

----------------------------------------------------------------------------
(***************************************************************************)
(* Reliable send (spec.md 4.5): send_with_retries issues an rpc, waits the *)
(* retry interval, and stops if the acknowledged flag is set, else issues  *)
(* the next rpc.  The responder acknowledges one attempt only, and its     *)
(* acknowledgement is dispatched within that attempt's interval.           *)
(***************************************************************************)

\* The latest attempt the responder may be set to acknowledge.
MaxAckOn == 3

\* What the reader reads besides acknowledgements.
RLines ==
    {Message("c1", "n1", MkBody("init", 1, "n1")),
     Message("c1", "n1", MkBody("read", 2, AbsentStr))}

RInit ==
    /\ id = None
    /\ next_msg_id = 1
    /\ handlers = EmptyMap
    /\ stateful_handlers = EmptyMap
    /\ stdout = <<>>
    /\ pc = "framework"
    /\ msg = NoLine
    /\ taken = NoEntry
    /\ nread = 0
    /\ invoked = <<>>
    /\ completed = 0
    /\ callbacks = EmptyMap
    /\ inbox = <<>>
    /\ outbox = <<>>
    /\ fired = <<>>
    /\ ndispatched = 0
    /\ app = NoApp
    /\ seen = {}
    /\ neighbors = <<>>
    /\ acked = FALSE
    /\ attempts = <<>>
    /\ retry_pc = "idle"
    /\ ack_on \in 1..MaxAckOn

\* The application calls send_with_retries(Peer, body), after the
\* handshake: the retry flow is spawned.
RetryStart ==
    /\ pc = "framework"
    /\ retry_pc = "idle"
    /\ id # None
    /\ retry_pc' = "attempt"
    /\ UNCHANGED <<id, next_msg_id, handlers, stateful_handlers, stdout, pc,
                   msg, taken, nread, invoked, completed, callbacks, inbox,
                   outbox, fired, ndispatched, avars, acked, attempts,
                   ack_on>>

\* Step (a): a fresh rpc with the same payload and a continuation that
\* flips the acknowledged flag.
RetryAttempt ==
    LET r == Rpc(Peer, OkBody(RpcType), Continuation, next_msg_id, callbacks,
                 outbox) IN
    /\ pc = "framework"
    /\ retry_pc = "attempt"
    /\ next_msg_id' = r.next_msg_id
    /\ callbacks' = r.callbacks
    /\ outbox' = r.outbox
    /\ IF r.panicked
       THEN /\ pc' = "panicked"
            /\ UNCHANGED <<attempts, retry_pc>>
       ELSE /\ attempts' = Append(attempts, next_msg_id)
            /\ retry_pc' = "wait"
            /\ pc' = pc
    /\ UNCHANGED <<id, handlers, stateful_handlers, stdout, msg, taken,
                   nread, invoked, completed, inbox, fired, ndispatched,
                   avars, acked, ack_on>>

\* Faulty variant: the flag is not looked at and the loop goes on.
AfterWait_Always(flag) == "attempt"

\* Step (c): stop if the flag is set, otherwise loop.
AfterWait(flag) == IF flag THEN "done" ELSE "attempt"

\* Step (b) is over: the retry interval has elapsed.  The interval of the
\* attempt the responder acknowledges does not elapse before the
\* acknowledgement was dispatched.
RetryWake ==
    /\ pc = "framework"
    /\ retry_pc = "wait"
    /\ ~(Len(attempts) = ack_on /\ ~acked)
    /\ retry_pc' = AfterWait(acked)
    /\ UNCHANGED <<id, next_msg_id, handlers, stateful_handlers, stdout, pc,
                   msg, taken, nread, invoked, completed, callbacks, inbox,
                   outbox, fired, ndispatched, avars, acked, attempts,
                   ack_on>>

\* The responder answers the request of attempt ack_on, once, after that
\* request was written to stdout; the answer is read by the reader flow.
Respond ==
    /\ Len(attempts) >= ack_on
    /\ \E i \in DOMAIN stdout :
           /\ stdout[i].body["type"] = RpcType
           /\ stdout[i].body["msg_id"] = attempts[ack_on]
    /\ \A i \in DOMAIN fired : fired[i].k # attempts[ack_on]
    /\ \A i \in DOMAIN inbox : inbox[i] # ReplyLine(attempts[ack_on])
    /\ FRead(ReplyLine(attempts[ack_on]))

RNext ==
    \/ \E line \in RLines : FRead(line)
    \/ Respond
    \/ FDispatch
    \/ FWrite
    \/ RetryStart
    \/ RetryAttempt
    \/ RetryWake

RetrySpec == RInit /\ [][RNext]_vars

----------------------------------------------------------------------------
(***************************************************************************)
(* The applications (echo/src/main.rs, broadcast/src/main.rs) on the       *)
(* Framework.  Their handlers are those of the source; framework.reply is  *)
(* the reply of lib.rs; framework.send, framework.node_id and the          *)
(* dispatch that calls Node::handle are modelled from spec.md 4.3, 4.4     *)
(* and 6.                                                                  *)
(***************************************************************************)

Apps == {"echo", "broadcast"}

\* The values a broadcast carries.
Values == {7, 8}

\* The `topology` field of a topology message: node -> its neighbors.
Topologies == {[n \in {"n1"} |-> <<"n2">>], [n \in {"n2"} |-> <<"n1">>]}

\* The lines an echo node is sent.
EchoLines ==
    {Message("c1", "n1", MkBody("init", 1, "n1")),
     Message("c1", "n1", MkBody("read", 1, AbsentStr))}
    \cup {Message("c1", "n1", MkBody("echo", m, AbsentStr)) : m \in {AbsentInt, 1, 2}}
    \cup {Message("c1", "n1", Insert(MkBody("echo", m, AbsentStr), "echo", e)) :
             m \in {1, 2}, e \in {"hi", "yo"}}

\* The lines a broadcast node is sent.
BroadcastLines ==
    {Message("c1", "n1", MkBody("init", 1, "n1")),
     Message("c1", "n1", MkBody("read", 3, AbsentStr)),
     Message("c1", "n1", MkBody("broadcast", 1, AbsentStr)),
     Message("n2", "n1", Insert(MkBody("broadcast_ok", 1, AbsentStr),
                                "in_reply_to", 4))}
    \cup {Message("c1", "n1", Insert(MkBody("topology", 1, AbsentStr), "topology", t)) :
             t \in Topologies}
    \cup {Message("c1", "n1", Insert(MkBody("broadcast", m, AbsentStr), "message", v)) :
             m \in {AbsentInt, 1, 2}, v \in Values}

ALines(a) == IF a = "echo" THEN EchoLines ELSE BroadcastLines

AInit ==
    /\ id = None
    /\ next_msg_id = 1
    /\ handlers = EmptyMap
    /\ stateful_handlers = EmptyMap
    /\ stdout = <<>>
    /\ pc = "framework"
    /\ msg = NoLine
    /\ taken = NoEntry
    /\ nread = 0
    /\ invoked = <<>>
    /\ completed = 0
    /\ callbacks = EmptyMap
    /\ inbox = <<>>
    /\ outbox = <<>>
    /\ fired = <<>>
    /\ ndispatched = 0
    /\ app \in Apps
    /\ seen = {}
    /\ neighbors = <<>>
    /\ acked = FALSE
    /\ attempts = <<>>
    /\ retry_pc = "idle"
    /\ ack_on = 0

\* send(to, body): the source is stamped from the Identity (which fails
\* before the handshake), the msg_id comes from the id generator, and the
\* message is queued for output.
Send(to, body, next, out) ==
    IF id = None \/ ProduceMsgIdPanics(next)
    THEN [panicked |-> TRUE, next_msg_id |-> next, stdout |-> out]
    ELSE [panicked |-> FALSE,
          next_msg_id |-> ProduceMsgId(next).next_msg_id,
          stdout |-> Append(out, Message(id, to,
                        Insert(body, "msg_id", ProduceMsgId(next).id)))]

\* What a handler leaves behind: whether it panicked, the id generator,
\* the outbound queue and the BroadcastNode.
Outcome(panicked, next, out, s, ns) ==
    [panicked |-> panicked, next_msg_id |-> next, outbox |-> out,
     seen |-> s, neighbors |-> ns]

\* Faulty variant: the reply starts from an empty body.
EchoBody_Empty(m) == OkBody("echo_ok")

\* EchoNode::echo: the body is cloned, its type rewritten, and replied.
EchoBody(m) == Insert(m.body, "type", "echo_ok")

Echo(m) ==
    LET r == Reply(m, EchoBody(m), next_msg_id, outbox) IN
    Outcome(r.panicked, r.next_msg_id, r.stdout, seen, neighbors)

\* The body BroadcastNode::broadcast forwards to a neighbor.
ForwardBody(v) == Insert(OkBody("broadcast"), "message", v)

\* for neighbor in &self.neighbors { framework.send(neighbor, body)? }
RECURSIVE Forward(_, _, _, _)
Forward(ns, v, next, out) ==
    IF ns = <<>>
    THEN [panicked |-> FALSE, next_msg_id |-> next, stdout |-> out]
    ELSE LET r == Send(Head(ns), ForwardBody(v), next, out) IN
         IF r.panicked THEN r
         ELSE Forward(Tail(ns), v, r.next_msg_id, r.stdout)

\* Faulty variant: a value is not remembered.
SeenInsert_Forget(s, v) == s

\* self.seen.insert(message): the set afterwards.
SeenInsert(s, v) == s \cup {v}

\* BroadcastNode::broadcast
Broadcast(m) ==
    IF ~HasKey(m.body, "message")
    THEN Outcome(TRUE, next_msg_id, outbox, seen, neighbors)
    ELSE IF m.body["message"] \in seen
    THEN Outcome(FALSE, next_msg_id, outbox,
                 SeenInsert(seen, m.body["message"]), neighbors)
    ELSE LET r == Reply(m, OkBody("broadcast_ok"), next_msg_id, outbox)
             f == Forward(neighbors, m.body["message"], r.next_msg_id, r.stdout)
         IN  IF r.panicked
             THEN Outcome(TRUE, r.next_msg_id, r.stdout,
                          SeenInsert(seen, m.body["message"]), neighbors)
             ELSE Outcome(f.panicked, f.next_msg_id, f.stdout,
                          SeenInsert(seen, m.body["message"]), neighbors)

\* The `messages` field of read_ok: self.seen.iter().copied().collect()
ReadBody(s) == Insert(OkBody("read_ok"), "messages", s)

\* BroadcastNode::read
Read(m) ==
    LET r == Reply(m, ReadBody(seen), next_msg_id, outbox) IN
    Outcome(r.panicked, r.next_msg_id, r.stdout, seen, neighbors)

\* BroadcastNode::topology: the neighbors are those the topology lists for
\* framework.node_id(); it panics without a topology, before the handshake
\* and when the node is not in the topology.
TopologyPanics(m) ==
    \/ ~HasKey(m.body, "topology")
    \/ id = None
    \/ id \notin DOMAIN m.body["topology"]

Topology(m) ==
    IF TopologyPanics(m)
    THEN Outcome(TRUE, next_msg_id, outbox, seen, neighbors)
    ELSE LET r == Reply(m, OkBody("topology_ok"), next_msg_id, outbox) IN
         Outcome(r.panicked, r.next_msg_id, r.stdout, seen,
                 m.body["topology"][id])

\* The handler returns Ok(()) without doing anything.
Ignore == Outcome(FALSE, next_msg_id, outbox, seen, neighbors)

\* Node::handle of EchoNode and of BroadcastNode: the match on the type.
AppHandle(a, m) ==
    CASE a = "echo" /\ Type(m) = "echo" -> Echo(m)
      [] a = "broadcast" /\ Type(m) = "broadcast" -> Broadcast(m)
      [] a = "broadcast" /\ Type(m) = "read" -> Read(m)
      [] a = "broadcast" /\ Type(m) = "topology" -> Topology(m)
      [] OTHER -> Ignore

\* Step 3 of the dispatch loop with an application: Node::handle is called
\* on the message.
ADispatchHandler(m) ==
    LET r == AppHandle(app, m) IN
    /\ Type(m) # "init"
    /\ ~HasKey(m.body, "in_reply_to")
    /\ invoked' = Append(invoked, [n |-> ndispatched + 1, type |-> Type(m),
                                   registry |-> "handle", handler |-> app,
                                   arg |-> m])
    /\ next_msg_id' = r.next_msg_id
    /\ outbox' = r.outbox
    /\ seen' = r.seen
    /\ neighbors' = r.neighbors
    /\ pc' = IF r.panicked THEN "panicked" ELSE "framework"
    /\ UNCHANGED <<id, callbacks, fired>>

\* The dispatch loop with an application.
ADispatch ==
    /\ pc = "framework"
    /\ inbox # <<>>
    /\ inbox' = Tail(inbox)
    /\ msg' = Head(inbox)
    /\ ndispatched' = ndispatched + 1
    /\ \/ FDispatchInit(Head(inbox)) /\ UNCHANGED <<seen, neighbors>>
       \/ FDispatchReply(Head(inbox)) /\ UNCHANGED <<seen, neighbors>>
       \/ ADispatchHandler(Head(inbox))
    /\ UNCHANGED <<handlers, stateful_handlers, stdout, taken, nread,
                   completed, app, rvars>>

ANext ==
    \/ \E line \in ALines(app) : FRead(line)
    \/ ADispatch
    \/ FWrite

AppSpec == AInit /\ [][ANext]_vars

----------------------------------------------------------------------------
\* Properties.

Last(s) == s[Len(s)]

\* The handlers that call reply.
Repliers == {InitHandler, "replier"}

\* The msg_id of the k-th line written to stdout.
OutMsgId(k) == stdout[k].body["msg_id"]

\* The line read last is a message with a type and its turn of the loop is
\* over (its handler, if any, returned or panicked).
Dispatched ==
    /\ nread > 0
    /\ pc \in {"read", "eof", "panicked"}
    /\ IsMessage(msg)
    /\ ~TypePanics(msg)

\* The handler invocation started for the line read last, if any.
InvokedForLast ==
    {i \in DOMAIN invoked : invoked[i].n = nread}

\* C1: the msg_ids the node allocates (one per line written) are strictly
\* increasing in allocation order, hence pairwise distinct, the first one
\* is 1, and the counter is above every id allocated so far.
C1_MsgIdsIncreasing ==
    /\ Len(stdout) > 0 => OutMsgId(1) = 1
    /\ \A i, j \in DOMAIN stdout : i < j => OutMsgId(i) < OutMsgId(j)
    /\ \A i \in DOMAIN stdout : OutMsgId(i) < next_msg_id

\* Three ids were allocated, after inbound messages were read.
C1_Witness ==
    /\ Len(stdout) = 3
    /\ nread >= 3

\* C2: every line reply writes answers the message being handled: its
\* in_reply_to is that message's msg_id, its dest is that message's src,
\* and its msg_id is fresh: the counter's value, above the msg_id of every
\* line written before.
C2_ReplyCorrelates ==
    [][stdout' # stdout =>
          /\ Len(stdout') = Len(stdout) + 1
          /\ \A i \in DOMAIN stdout : stdout'[i] = stdout[i]
          /\ Last(stdout').body["in_reply_to"] = msg.body["msg_id"]
          /\ Last(stdout').dest = msg.src
          /\ Last(stdout').body["msg_id"] = next_msg_id
          /\ next_msg_id' > next_msg_id
          /\ \A i \in DOMAIN stdout :
                 OutMsgId(i) # Last(stdout').body["msg_id"]]_vars

\* A reply to a message with msg_id 2 was written with the fresh msg_id 1.
C2_Witness ==
    /\ Dispatched
    /\ pc = "read"
    /\ InvokedForLast # {}
    /\ HasKey(msg.body, "msg_id")
    /\ msg.body["msg_id"] = 2
    /\ Len(stdout) = 1
    /\ stdout[1].body["in_reply_to"] = 2
    /\ stdout[1].body["msg_id"] = 1
    /\ stdout[1].dest = msg.src

\* A handler that replies was called on the line read last and is over.
ReplyAttempted ==
    /\ Dispatched
    /\ \E i \in InvokedForLast : invoked[i].handler \in Repliers

\* C3 as stated: a reply to a message without msg_id is still written, and
\* carries no in_reply_to.
C3_ReplyWithoutMsgId ==
    (ReplyAttempted /\ ~HasKey(msg.body, "msg_id")) =>
        /\ pc # "panicked"
        /\ Len(stdout) > 0
        /\ Last(stdout).dest = msg.src
        /\ ~HasKey(Last(stdout).body, "in_reply_to")

\* C3, amended: reply to a message whose body has no u64 msg_id panics in
\* Message::msg_id: the node aborts, nothing is written and no msg_id is
\* allocated.
C3_ReplyWithoutMsgIdPanics ==
    [][(pc = "handler" /\ taken[2] \in Repliers /\ MsgIdPanics(msg)) =>
          /\ pc' = "panicked"
          /\ stdout' = stdout
          /\ next_msg_id' = next_msg_id]_vars

\* A replying handler was called on a message without msg_id; the node
\* panicked.
C3_Witness ==
    /\ ReplyAttempted
    /\ ~HasKey(msg.body, "msg_id")
    /\ pc = "panicked"
    /\ next_msg_id < U64_MAX

\* The handler invocations for messages of type init.
InitInvocations == {i \in DOMAIN invoked : invoked[i].type = "init"}

\* The lines of type init_ok on stdout.
InitOks == {i \in DOMAIN stdout : stdout[i].body["type"] = "init_ok"}

\* C4: the node address is absent until an init message is dispatched; when
\* the first init message (with a node_id and a msg_id) has been
\* dispatched, the address is its node_id and stdout holds exactly one
\* init_ok, whose in_reply_to is its msg_id.
C4_FirstInitSetsId ==
    /\ InitInvocations = {} => id = None
    /\ (/\ Dispatched
        /\ pc # "panicked"
        /\ Type(msg) = "init"
        /\ Cardinality(InitInvocations) = 1
        /\ HasKey(msg.body, "node_id")
        /\ ~MsgIdPanics(msg))
       => /\ id = msg.body["node_id"]
          /\ Cardinality(InitOks) = 1
          /\ \A i \in InitOks : stdout[i].body["in_reply_to"] = MsgId(msg)

\* C5: once the node address is set it never changes.
C5_IdNeverChanges ==
    [][id # None => id' = id]_vars

\* C6: whatever the application registered, when an init message (with a
\* node_id and a msg_id) has been dispatched the address is its node_id and
\* the last line written is the init_ok answering it.
C6_InitAlwaysHandshakes ==
    (/\ Dispatched
     /\ pc # "panicked"
     /\ Type(msg) = "init"
     /\ HasKey(msg.body, "node_id")
     /\ ~MsgIdPanics(msg))
    => /\ id = msg.body["node_id"]
       /\ Len(stdout) > 0
       /\ Last(stdout).body["type"] = "init_ok"
       /\ Last(stdout).body["in_reply_to"] = MsgId(msg)
       /\ Last(stdout).dest = msg.src

\* C7: handlers are invoked in the order their messages were read and one at
\* a time: the invocations are in increasing order of line number, at most
\* one has not returned, that one is for the line read last, and none is
\* running when the next line is read.
C7_DispatchInOrder ==
    /\ \A i, j \in DOMAIN invoked : i < j => invoked[i].n < invoked[j].n
    /\ \A i \in DOMAIN invoked : invoked[i].n <= nread
    /\ pc \in {"read", "eof"} => completed = Len(invoked)
    /\ pc = "handler" =>
          /\ completed = Len(invoked) - 1
          /\ Last(invoked).n = nread
          /\ Last(invoked).type = Type(msg)

\* Three handler invocations ran to their end, on three different lines.
C7_Witness ==
    /\ pc = "read"
    /\ completed = 3
    /\ Len(invoked) = 3
    /\ invoked[1].n < invoked[2].n
    /\ invoked[2].n < invoked[3].n

\* C8: when a message of a type T has been dispatched, every handler
\* registered for T, with handle or with handle_with_state, has been
\* invoked exactly once for it.
C8_RegisteredHandlerInvokedOnce ==
    (Dispatched /\ pc # "panicked") =>
        /\ HasKey(handlers, Type(msg)) =>
              Cardinality({i \in InvokedForLast :
                              /\ invoked[i].registry = "handlers"
                              /\ invoked[i].handler = handlers[Type(msg)]}) = 1
        /\ HasKey(stateful_handlers, Type(msg)) =>
              Cardinality({i \in InvokedForLast :
                              /\ invoked[i].registry = "stateful_handlers"
                              /\ invoked[i].handler
                                     = stateful_handlers[Type(msg)]}) = 1

\* C9: reading a message whose type has no handler in `handlers` changes
\* nothing but the line count: nothing is written, no msg_id is allocated,
\* the address and both registries stay as they are, no handler is invoked,
\* and the loop is back at reading the next line.
C9_UnregisteredDropped ==
    [][(/\ pc = "read"
        /\ nread' = nread + 1
        /\ IsMessage(msg')
        /\ ~TypePanics(msg')
        /\ ~HasKey(handlers, Type(msg')))
       => /\ stdout' = stdout
          /\ next_msg_id' = next_msg_id
          /\ id' = id
          /\ handlers' = handlers
          /\ stateful_handlers' = stateful_handlers
          /\ invoked' = invoked
          /\ completed' = completed
          /\ taken' = taken
          /\ pc' = "read"]_vars

\* A message of an unregistered type was dropped after an earlier message
\* was answered, and the loop is reading again.
C9_Witness ==
    /\ Dispatched
    /\ pc = "read"
    /\ ~HasKey(handlers, Type(msg))
    /\ InvokedForLast = {}
    /\ nread >= 2
    /\ Len(stdout) >= 1
    /\ id # None

\* C10: no msg_id fires a continuation twice.  A dispatched reply whose
\* in_reply_to has a registered continuation removes it and invokes it,
\* once, and no handler; a dispatched reply whose in_reply_to has none (it
\* was consumed before, or never registered) invokes nothing and changes
\* neither the registry, the id generator nor the outbound queue.
C10_CallbackAtMostOnce ==
    [][/\ \A i, j \in DOMAIN fired' : i < j => fired'[i].k # fired'[j].k
       /\ (/\ ndispatched' = ndispatched + 1
           /\ Type(msg') # "init"
           /\ HasKey(msg'.body, "in_reply_to"))
          => /\ invoked' = invoked
             /\ IF HasKey(callbacks, msg'.body["in_reply_to"])
                THEN /\ Len(fired') = Len(fired) + 1
                     /\ Last(fired').k = msg'.body["in_reply_to"]
                     /\ Last(fired').cont = callbacks[msg'.body["in_reply_to"]]
                     /\ ~HasKey(callbacks', msg'.body["in_reply_to"])
                ELSE /\ fired' = fired
                     /\ callbacks' = callbacks
                     /\ next_msg_id' = next_msg_id
                     /\ outbox' = outbox]_vars

\* The continuation registered under msg_id 2 fired on the first reply to
\* 2, and a second reply to 2 has just been dropped.
C10_Witness ==
    /\ pc = "framework"
    /\ Len(fired) = 1
    /\ IsMessage(msg)
    /\ HasKey(msg.body, "in_reply_to")
    /\ msg.body["in_reply_to"] = 2
    /\ \E i \in DOMAIN fired : fired[i].k = 2 /\ fired[i].n < ndispatched
    /\ \A i \in DOMAIN fired : fired[i].n # ndispatched

\* The msg_ids the Callback Registry holds or has held: an entry leaves the
\* registry only when its continuation fires.
EverRegistered == (DOMAIN callbacks) \cup {fired[i].k : i \in DOMAIN fired}

\* The rpc requests that are queued for output or written.
RpcRequestsOut ==
    {outbox[i] : i \in {j \in DOMAIN outbox : outbox[j].body["type"] = RpcType}}
    \cup {stdout[i] : i \in {j \in DOMAIN stdout : stdout[j].body["type"] = RpcType}}

C12_RetriesUntilAcked ==
    /\ Len(attempts) <= ack_on
    /\ \A i, j \in DOMAIN attempts : i < j => attempts[i] < attempts[j]
    /\ retry_pc = "done" => (acked /\ Len(attempts) = ack_on)
    /\ (retry_pc = "attempt" /\ attempts # <<>>) => ~acked

\* The responder acknowledged the third attempt; three attempts were
\* issued and the reliable send has stopped.
C12_Witness ==
    /\ retry_pc = "done"
    /\ ack_on = 3
    /\ Len(attempts) = 3
    /\ Len(fired) = 1
    /\ fired[1].k = attempts[3]

----------------------------------------------------------------------------
\* Properties of the applications.

\* Everything the node has emitted, in order: what is written followed by
\* what is queued for the writer of stdout.
Emitted == stdout \o outbox

\* The positions of the emitted messages of a type.
EmittedOfType(t) == {i \in DOMAIN Emitted : Emitted[i].body["type"] = t}

\* The turn of the dispatch loop just taken handed an application message
\* of type t to Node::handle.
HandledNow(t) ==
    /\ ndispatched' = ndispatched + 1
    /\ Type(msg') = t
    /\ ~HasKey(msg'.body, "in_reply_to")

\* No value is forwarded to a neighbor twice.
ForwardedOnce ==
    \A i, j \in EmittedOfType("broadcast") :
        (/\ Emitted[i].dest = Emitted[j].dest
         /\ Emitted[i].body["message"] = Emitted[j].body["message"]) => i = j

\* C13: a broadcast node forwards a value to each neighbor once however
\* many broadcasts carry it, and every broadcast it handles, duplicate or
\* not, gets a broadcast_ok of its own.
C13_EveryBroadcastAcked ==
    [][(/\ app = "broadcast"
        /\ HandledNow("broadcast")
        /\ pc' # "panicked")
       => /\ ForwardedOnce'
          /\ Len(outbox') > Len(outbox)
          /\ \E i \in (DOMAIN outbox') \ (DOMAIN outbox) :
                /\ outbox'[i].body["type"] = "broadcast_ok"
                /\ outbox'[i].body["in_reply_to"] = MsgId(msg')
                /\ outbox'[i].dest = msg'.src]_vars

\* C14: the source of every message the node emits is the node address held
\* in the Identity, whatever destination the inbound message carried.
C14_SourceIsIdentity ==
    [][Len(stdout') > Len(stdout) => Last(stdout').src = id']_vars

\* The line is not a Message, or is a Message without a string `type`.
BadLine(line) == ~IsMessage(line) \/ TypePanics(line)

\* C16: a line that does not parse, or a message without a string type,
\* aborts the node: no handler is invoked for it, nothing is written, and
\* once aborted the node reads, dispatches and writes nothing more.
C16_BadLineAborts ==
    [][/\ (nread' = nread + 1 /\ BadLine(msg'))
          => /\ pc' = "panicked"
             /\ stdout' = stdout
             /\ invoked' = invoked
             /\ handlers' = handlers
       /\ pc = "panicked"
          => /\ nread' = nread
             /\ stdout' = stdout
             /\ invoked' = invoked
             /\ completed' = completed]_vars

\* A bad line aborted a node that had dispatched and answered a message
\* before and had input left to read.
C16_Witness ==
    /\ pc = "panicked"
    /\ BadLine(msg)
    /\ nread = 2
    /\ nread < MaxInbound
    /\ Len(invoked) = 1
    /\ Len(stdout) = 1

\* The fields of the reply body that come from the request.
Payload(body) == [k \in (DOMAIN body) \ {"type", "msg_id", "in_reply_to"} |-> body[k]]

\* C15: an echo node that handles an echo request with msg_id m, while ids
\* are left to allocate, emits one message for it: the request's body with the type replaced by echo_ok,
\* in_reply_to m, a fresh msg_id and every other field as in the request,
\* with source and destination swapped.
C15_EchoReply ==
    [][(/\ app = "echo"
        /\ HandledNow("echo")
        /\ ~MsgIdPanics(msg')
        /\ ~ProduceMsgIdPanics(next_msg_id))
       => /\ pc' = "framework"
          /\ Len(outbox') = Len(outbox) + 1
          /\ Last(outbox').src = msg'.dest
          /\ Last(outbox').dest = msg'.src
          /\ Last(outbox').body["type"] = "echo_ok"
          /\ Last(outbox').body["in_reply_to"] = MsgId(msg')
          /\ Last(outbox').body["msg_id"] = next_msg_id
          /\ next_msg_id' = next_msg_id + 1
          /\ \A i \in DOMAIN Emitted : Emitted[i].body["msg_id"] < next_msg_id
          /\ DOMAIN Last(outbox').body = (DOMAIN msg'.body) \cup {"in_reply_to"}
          /\ Payload(Last(outbox').body) = Payload(msg'.body)]_vars

\* An echo node has answered an echo request that carries a payload and
\* whose msg_id differs from the reply's.
C15_Witness ==
    /\ app = "echo"
    /\ pc = "framework"
    /\ ndispatched = 2
    /\ Type(msg) = "echo"
    /\ HasKey(msg.body, "echo")
    /\ outbox # <<>>
    /\ Last(outbox).body["type"] = "echo_ok"
    /\ Last(outbox).body["echo"] = msg.body["echo"]
    /\ Last(outbox).body["in_reply_to"] = 1
    /\ Last(outbox).body["msg_id"] = 2

\* The application's handler, or the handshake, calls reply on m in the
\* current state.
RepliesTo(a, m) ==
    \/ Type(m) = "init"
    \/ /\ ~HasKey(m.body, "in_reply_to")
       /\ \/ a = "echo" /\ Type(m) = "echo"
          \/ a = "broadcast" /\ Type(m) = "read"
          \/ a = "broadcast" /\ Type(m) = "topology" /\ ~TopologyPanics(m)
          \/ /\ a = "broadcast" /\ Type(m) = "broadcast"
             /\ HasKey(m.body, "message")
             /\ m.body["message"] \notin seen

\* C17: the id generator never wraps around and never hands out a value
\* twice: the counter only grows and stops at the maximum, every emitted
\* msg_id is below the maximum and differs from every other, and an
\* allocation at the maximum aborts the node without emitting anything.
C17_NeverWrapsOrReuses ==
    [][/\ next_msg_id' >= next_msg_id
       /\ next_msg_id' <= U64_MAX
       /\ \A i \in DOMAIN Emitted' :
             /\ Emitted'[i].body["msg_id"] >= 1
             /\ Emitted'[i].body["msg_id"] < next_msg_id'
       /\ \A i, j \in DOMAIN Emitted' :
             Emitted'[i].body["msg_id"] = Emitted'[j].body["msg_id"] => i = j
       /\ next_msg_id = U64_MAX
          => /\ next_msg_id' = next_msg_id
             /\ Emitted' = Emitted
       /\ (/\ next_msg_id = U64_MAX
           /\ ndispatched' = ndispatched + 1
           /\ RepliesTo(app, msg')
           /\ ~MsgIdPanics(msg'))
          => pc' = "panicked"]_vars

\* The generator is exhausted and the node aborted on the allocation for a
\* message it had to answer, after every id below the maximum was emitted.
C17_Witness ==
    /\ pc = "panicked"
    /\ next_msg_id = U64_MAX
    /\ ~MsgIdPanics(msg)
    /\ Type(msg) = "read"
    /\ Len(Emitted) = U64_MAX - 1
    /\ \E i \in DOMAIN Emitted : Emitted[i].body["msg_id"] = U64_MAX - 1

\* The values of the broadcasts handed to BroadcastNode::broadcast so far.
BroadcastValues ==
    {invoked[i].arg.body["message"] :
        i \in {j \in DOMAIN invoked : /\ invoked[j].type = "broadcast"
                                      /\ HasKey(invoked[j].arg.body, "message")}}

\* C18: a broadcast node answers every read with a read_ok whose messages
\* are exactly the distinct values of the broadcasts dispatched before the
\* read, and the seen set only grows.
C18_ReadReturnsSeen ==
    [][app = "broadcast"
       => /\ seen \subseteq seen'
          /\ seen' = BroadcastValues'
          /\ (/\ HandledNow("read")
              /\ ~MsgIdPanics(msg')
              /\ ~ProduceMsgIdPanics(next_msg_id))
             => /\ pc' = "framework"
                /\ Len(outbox') = Len(outbox) + 1
                /\ Last(outbox').body["type"] = "read_ok"
                /\ Last(outbox').body["in_reply_to"] = MsgId(msg')
                /\ Last(outbox').dest = msg'.src
                /\ Last(outbox').body["messages"] = BroadcastValues]_vars

\* A read was answered after broadcasts of two values, one of them sent
\* twice.
C18_Witness ==
    /\ app = "broadcast"
    /\ pc = "framework"
    /\ ndispatched = 4
    /\ Type(msg) = "read"
    /\ Len(invoked) = 4
    /\ invoked[1].type = "broadcast"
    /\ invoked[3].type = "broadcast"
    /\ HasKey(invoked[1].arg.body, "message")
    /\ HasKey(invoked[3].arg.body, "message")
    /\ invoked[1].arg.body["message"] = invoked[3].arg.body["message"]
    /\ Emitted # <<>>
    /\ Last(Emitted).body["type"] = "read_ok"
    /\ Last(Emitted).body["messages"] = Values

\* The Handler Registry with the handler that is out for its own
\* invocation counted in.
FullRegistry ==
    IF pc = "handler" THEN Insert(handlers, taken[1], taken[2]) ELSE handlers

\* C19: dispatch leaves the Handler Registry as it was when run started:
\* between two dispatched messages it maps the same types to the same
\* handlers, the handler taken out for its own invocation is put back when
\* the invocation succeeds, and registering a type again replaces its
\* handler, so a type has one handler at most.
C19_RegistryUnchangedByDispatch ==
    [][/\ (pc # "setup" /\ pc' # "panicked")
          => /\ FullRegistry' = FullRegistry
             /\ stateful_handlers' = stateful_handlers
             /\ pc' = "handler"
                => /\ taken'[1] \notin DOMAIN handlers'
                   /\ taken'[1] = Type(msg')
             /\ pc' \in {"read", "eof"}
                => /\ taken' = NoEntry
                   /\ handlers' = FullRegistry
       /\ (pc = "setup" /\ handlers' # handlers)
          => \E t \in DOMAIN handlers' :
                /\ DOMAIN handlers' = (DOMAIN handlers) \cup {t}
                /\ \A u \in (DOMAIN handlers) \ {t} : handlers'[u] = handlers[u]]_vars

\* Two handlers are registered and each has been taken out, has run to
\* success and is back in the registry.
C19_Witness ==
    /\ pc = "read"
    /\ completed = 2
    /\ Len(invoked) = 2
    /\ invoked[1].type # invoked[2].type
    /\ DOMAIN handlers = {"init", "echo"}
    /\ handlers["init"] = invoked[1].handler
    /\ handlers["echo"] = invoked[2].handler
    /\ taken = NoEntry

============================================================================
